---- MODULE Spec2Model ----
(***************************************************************************)
(* Model of the vue-styled-components TypeScript-syntax plugin: the type   *)
(* resolver (mergeProps, handleComplexType, parsePropsFromTypeStr,         *)
(* processTypeParameters, processNestedGeneric ...), the rewriter          *)
(* (transformStyledComponents) and the orchestrators (transformCore,       *)
(* transformStyledSyntax, transformVueSFC), the transform hook of the      *)
(* plugin and the log functions (handleError, logWarning ...).             *)
(*                                                                         *)
(* Text is a sequence of tokens (strings).  Offsets are 0-based token      *)
(* indices, as the character offsets of the source are 0-based.            *)
(***************************************************************************)
EXTENDS Integers, Sequences, FiniteSets, TLC

VARIABLES
  \* ---- mergeProps driver (the loop over parts in handleComplexType) ----
  parts,        \* the parts still to be merged and those merged, in order
  partIdx,      \* number of parts merged so far
  mergedProps,  \* the accumulated descriptor (target of mergeProps)
  \* ---- the type context and the log (module state of the plugin) ----
  context,        \* useContext(): [typeMap, typeAliasMap]
  logLevel,       \* currentLogLevel
  errorCollector, \* the types of the collected errors, oldest first
  consoleOut,     \* the console calls made so far: <<method, first argument>>
  logCall,        \* the last call of a log function: [fn, details, level]
  \* ---- one call of an exported resolver function ----
  resolverFn,     \* the function called, "none" before the call
  resolverArg,    \* its text argument
  resolverRet,    \* the returned string | undefined
  resolverProps,  \* the returned property map (parsePropsFromTypeStr)
  \* ---- one call of the plugin's transform hook ----
  fileId,         \* the id argument: path tokens, the extension last
  fileCode,       \* the code argument
  entry,          \* the transformer the hook called, "none" before the call
  unitCode,       \* the code given to transformCore
  contentStart,   \* the offset given to transformCore
  coreCalls,      \* calls of transformCore
  parseCalls,     \* calls of parser.parse
  resetCalls,     \* calls of resetContext
  edits,          \* the overwrite calls the MagicString accepted
  timerEvents,    \* the startTimer / endTimer calls, in order
  result          \* the value returned (or the exception thrown) by the call

mergeVars == <<parts, partIdx, mergedProps>>

logVars == <<logLevel, errorCollector, consoleOut, logCall>>

resolverVars == <<resolverFn, resolverArg, resolverRet, resolverProps>>

fileVars == <<fileId, fileCode>>

callVars ==
  <<entry, unitCode, contentStart, coreCalls, parseCalls, resetCalls, edits, timerEvents, result>>

pipelineVars == <<fileVars, callVars>>

vars == <<mergeVars, context, logVars, resolverVars, pipelineVars>>

(***************************************************************************)
(* Bounds of the model.                                                    *)
(***************************************************************************)
MaxParts == 3

\* operands of one union / intersection type argument
MaxOperands == 3

\* properties in one serialized descriptor given to parsePropsFromTypeStr
MaxFields == 2

\* statements in one script
MaxUnits == 2

\* console lines and collected errors in one run of the log functions
MaxLogLines == 3

\* generic wrappers nested in one type argument
MaxNesting == 3

(***************************************************************************)
(* JavaScript strings as token sequences.                                  *)
(***************************************************************************)
\* String.prototype.slice(a, b) with 0-based offsets
Slice(s, a, b) == SubSeq(s, a + 1, b)

startsWith(s, tok) == Len(s) > 0 /\ s[1] = tok

endsWith(s, tok) == Len(s) > 0 /\ s[Len(s)] = tok

includes(s, tok) == \E i \in 1..Len(s) : s[i] = tok

\* the i-th smallest element (i from 1) of a finite set of integers
Nth(S, i) == CHOOSE p \in S : Cardinality({q \in S : q < p}) = i - 1

Min(S) == CHOOSE p \in S : \A q \in S : p <= q

Max(S) == CHOOSE p \in S : \A q \in S : q <= p

\* Array.prototype.join(', ') of texts
RECURSIVE JoinComma(_)
JoinComma(texts) ==
  IF texts = <<>> THEN <<>>
  ELSE IF Len(texts) = 1 THEN texts[1]
  ELSE texts[1] \o <<",">> \o JoinComma(Tail(texts))

\* the characters of a token sequence as one token (a captured group that is
\* kept as a single type tag)
RECURSIVE JoinText(_)
JoinText(toks) ==
  IF toks = <<>> THEN ""
  ELSE IF Len(toks) = 1 THEN toks[1]
  ELSE toks[1] \o JoinText(Tail(toks))

(***************************************************************************)
(* Record<string, { type, required }>: a JavaScript object keeps its keys  *)
(* in insertion order, so a descriptor is a sequence of entries with       *)
(* pairwise distinct names.                                                *)
(***************************************************************************)
HasKey(props, k) == \E i \in 1..Len(props) : props[i].name = k

GetKey(props, k) == props[CHOOSE i \in 1..Len(props) : props[i].name = k]

\* target[key] = value: an existing key keeps its position, a new one is appended
SetKey(props, e) ==
  IF HasKey(props, e.name)
    THEN [i \in 1..Len(props) |-> IF props[i].name = e.name THEN e ELSE props[i]]
    ELSE Append(props, e)

Keys(props) == {props[i].name : i \in 1..Len(props)}

(***************************************************************************)
(* Tokens.  A word is a token matched by \w+; the words that start with a  *)
(* lower-case letter are listed, every other word starts with [A-Z].       *)
(***************************************************************************)
Punct == {"{", "}", "<", ">", "(", ")", "|", "&", ",", ":", ";", "?", ".", "=", "[css]",
          "<script lang=ts>", "<script>", "</script>", "<template/>", "@@"}

LowerWords == {"string", "number", "boolean", "a", "b", "c", "type", "required",
               "true", "false", "junk", "const", "styled", "as", "div", "span",
               "interface", "export", "box"}

IsWord(tok) == tok \notin Punct

\* [A-Z][a-zA-Z0-9]* and ^[A-Z_]\w*$ without the i flag
IsUpperWord(tok) == IsWord(tok) /\ tok \notin LowerWords

\* String.prototype.toLowerCase on the names the resolver switches on
toLowerCase(tok) ==
  CASE tok = "Array" -> "array"
    [] tok = "Set" -> "set"
    [] tok = "List" -> "list"
    [] tok = "Collection" -> "collection"
    [] tok = "Map" -> "map"
    [] tok = "Record" -> "record"
    [] tok = "Dictionary" -> "dictionary"
    [] tok = "Promise" -> "promise"
    [] tok = "Observable" -> "observable"
    [] tok = "A" -> "a"
    [] tok = "B" -> "b"
    [] tok = "N" -> "n"
    [] tok = "U" -> "u"
    [] tok = "Box" -> "box"
    [] OTHER -> tok

\* bracket depth in front of position i (1-based)
Depth(text, i) ==
  Cardinality({j \in 1..(i - 1) : text[j] \in {"{", "<", "("}})
  - Cardinality({j \in 1..(i - 1) : text[j] \in {"}", ">", ")"}})

\* the pieces of text between the positions in cuts
SplitAt(text, cuts) ==
  LET all == cuts \cup {0, Len(text) + 1}
  IN [k \in 1..(Cardinality(all) - 1) |->
        SubSeq(text, Nth(all, k) + 1, Nth(all, k + 1) - 1)]

\* positions of a separator outside every bracket
TopLevel(text, seps) == {i \in 1..Len(text) : text[i] \in seps /\ Depth(text, i) = 0}

(***************************************************************************)
(* The regular expressions of the resolver, on tokens.                     *)
(***************************************************************************)
NoMatch == [ok |-> FALSE, base |-> "", params |-> <<>>]

\* /(Base)<(.+)>/ : leftmost base word followed by "<", greedy up to the
\* last ">" of the text.  The base is [A-Z]\w*, with the i flag when
\* ignoreCase.
GenericMatch(text, ignoreCase) ==
  LET starts == {i \in 1..Len(text) :
                   /\ IF ignoreCase THEN IsWord(text[i]) ELSE IsUpperWord(text[i])
                   /\ i + 3 <= Len(text)
                   /\ text[i + 1] = "<"
                   /\ \E j \in (i + 3)..Len(text) : text[j] = ">"}
  IN IF starts = {} THEN NoMatch
     ELSE LET i == Min(starts)
              j == Max({k \in (i + 3)..Len(text) : text[k] = ">"})
          IN [ok |-> TRUE, base |-> text[i], params |-> SubSeq(text, i + 2, j - 1)]

\* position of the first brace after position i, 0 when there is none
NextBrace(text, i) ==
  LET B == {j \in (i + 1)..Len(text) : text[j] \in {"{", "}"}}
  IN IF B = {} THEN 0 ELSE Min(B)

\* "{" at i closed by "}" with no brace in between: \{[^{}]*\}
BraceGroupAt(text, i) ==
  /\ i <= Len(text) /\ text[i] = "{"
  /\ NextBrace(text, i) # 0 /\ text[NextBrace(text, i)] = "}"

\* params.match(/\{([^{}]*)\}/): the content of the leftmost innermost group
ObjMatch(text) ==
  LET starts == {i \in 1..Len(text) : BraceGroupAt(text, i)}
  IN IF starts = {} THEN [ok |-> FALSE, content |-> <<>>]
     ELSE LET i == Min(starts)
          IN [ok |-> TRUE, content |-> SubSeq(text, i + 1, NextBrace(text, i) - 1)]

(***************************************************************************)
(* The type context (useContext): typeMap maps a declared name to its      *)
(* text, typeAliasMap holds the declared alias names.                      *)
(***************************************************************************)
typeMapHas(ctx, name) == name \in DOMAIN ctx.typeMap

typeMapGet(ctx, name) == ctx.typeMap[name]

EmptyContext == [typeMap |-> <<>>, typeAliasMap |-> {}]

(***************************************************************************)
(* Helpers of type-utils / type-processors / ast-traverser.                *)
(***************************************************************************)
isObjectType(text) == startsWith(text, "{") /\ endsWith(text, "}")

extractObjectContent(text) == Slice(text, 1, Len(text) - 1)

\* bracket-depth-aware split on an operator
splitTypeByOperator(text, op) == SplitAt(text, TopLevel(text, {op}))

parseComplexType(text) ==
  LET isUnion == TopLevel(text, {"|"}) # {}
      isIntersection == ~isUnion /\ TopLevel(text, {"&"}) # {}
  IN [parts |-> IF isUnion THEN splitTypeByOperator(text, "|")
                ELSE IF isIntersection THEN splitTypeByOperator(text, "&")
                ELSE <<text>>,
      isUnion |-> isUnion,
      isIntersection |-> isIntersection]

\* the Vue constructor for a TypeScript member type
tsTypeTag(ty) ==
  IF ty = <<"string">> THEN "String"
  ELSE IF ty = <<"number">> THEN "Number"
  ELSE IF ty = <<"boolean">> THEN "Boolean"
  ELSE IF startsWith(ty, "Array") THEN "Array"
  ELSE "Object"

\* one member "name: T" or "name?: T" of an inline object
parseMember(seg) ==
  IF Len(seg) >= 3 /\ IsWord(seg[1]) /\ seg[2] = ":"
    THEN <<[name |-> seg[1], type |-> tsTypeTag(SubSeq(seg, 3, Len(seg))), required |-> TRUE]>>
  ELSE IF Len(seg) >= 4 /\ IsWord(seg[1]) /\ seg[2] = "?" /\ seg[3] = ":"
    THEN <<[name |-> seg[1], type |-> tsTypeTag(SubSeq(seg, 4, Len(seg))), required |-> FALSE]>>
  ELSE IF Len(seg) >= 1 /\ IsWord(seg[1])
    THEN <<[name |-> seg[1], type |-> "Object", required |-> TRUE]>>
  ELSE <<>>

RECURSIVE parseMembers(_, _)
parseMembers(segs, acc) ==
  IF segs = <<>> THEN acc
  ELSE LET m == parseMember(Head(segs))
       IN parseMembers(Tail(segs), IF m = <<>> THEN acc ELSE SetKey(acc, m[1]))

parseInlineProps(typeAliasMap, content) ==
  parseMembers(SplitAt(content, TopLevel(content, {";", ","})), <<>>)

entryText(e) ==
  <<e.name, ":", "{", "type", ":", e.type, ",", "required", ":",
    IF e.required THEN "true" ELSE "false", "}">>

stringifyProps(props) ==
  <<"{">> \o JoinComma([i \in 1..Len(props) |-> entryText(props[i])]) \o <<"}">>

handleMultilineObject(typeAliasMap, text) ==
  stringifyProps(parseInlineProps(typeAliasMap, extractObjectContent(text)))

typeScriptToVueProp(text) ==
  IF isObjectType(text) THEN handleMultilineObject({}, text)
  ELSE IF Len(text) = 1 /\ text[1] \in {"string", "number", "boolean"}
    THEN <<tsTypeTag(text)>>
  ELSE text

\* the syntactic class of a type argument
analyzeTypeParameter(params) ==
  LET none == [isReference |-> FALSE, name |-> "unknown", typeParameters |-> <<>>]
  IN IF TopLevel(params, {"|"}) # {} THEN [none EXCEPT !.name = "union"]
     ELSE IF TopLevel(params, {"&"}) # {} THEN [none EXCEPT !.name = "intersection"]
     ELSE IF isObjectType(params) THEN [none EXCEPT !.name = "object"]
     ELSE IF Len(params) = 1 /\ IsUpperWord(params[1])
       THEN [isReference |-> TRUE, name |-> params[1], typeParameters |-> <<>>]
     ELSE IF /\ Len(params) >= 4 /\ IsUpperWord(params[1])
             /\ params[2] = "<" /\ params[Len(params)] = ">"
       THEN LET args == splitTypeByOperator(SubSeq(params, 3, Len(params) - 1), ",")
            IN [isReference |-> TRUE, name |-> params[1],
                typeParameters |->
                  [i \in 1..Len(args) |->
                     [text |-> args[i],
                      composition |-> TopLevel(args[i], {"|", "&"}) # {}]]]
     ELSE none

(***************************************************************************)
(* mergeProps (error-handler.ts 192-207).  mergeEntry is the callback of   *)
(* the forEach over the entries of source.                                 *)
(***************************************************************************)
\* mutant: the later part always wins
mergeEntry_lastWins(target, e) == SetKey(target, e)

\* mutant: the first-seen entry always wins
mergeEntry_firstWins(target, e) ==
  IF HasKey(target, e.name) THEN target ELSE SetKey(target, e)

mergeEntry(target, e) ==
  IF HasKey(target, e.name)
    THEN IF e.required THEN SetKey(target, e) ELSE target
    ELSE SetKey(target, e)

RECURSIVE mergeProps(_, _)
mergeProps(target, source) ==
  IF source = <<>> THEN target
  ELSE mergeProps(mergeEntry(target, Head(source)), Tail(source))

(***************************************************************************)
(* parsePropsFromTypeStr (error-handler.ts 363-431): the properties of a   *)
(* serialized descriptor, "name: { type: X, required: Y }" each.           *)
(***************************************************************************)
Ctors == {"String", "Number", "Boolean", "Array", "Object", "Function", "Symbol", "BigInt"}

\* the values JSON.parse accepts once the constructor names are quoted
JsonValues == Ctors \cup {"true", "false", "null"}

\* the "key: value" members of the text between the braces of propValue
valueMembers(propValue) ==
  LET inner == SubSeq(propValue, 2, Len(propValue) - 1)
  IN IF inner = <<>> THEN <<>>
     ELSE SplitAt(inner, {i \in 1..Len(inner) : inner[i] = ","})

\* JSON.parse(cleanValue) succeeds (386)
jsonParses(propValue) ==
  \A k \in 1..Len(valueMembers(propValue)) :
    LET m == valueMembers(propValue)[k]
    IN Len(m) = 3 /\ IsWord(m[1]) /\ m[2] = ":" /\ m[3] \in JsonValues

\* propValueObj[key]: the last member with that key, "undefined" when absent
jsonGet(propValue, key) ==
  LET ms == valueMembers(propValue)
      hits == {k \in 1..Len(ms) : ms[k][1] = key}
  IN IF hits = {} THEN "undefined" ELSE ms[Max(hits)][3]

\* propValue.match(/type\s*:\s*([^,}]+)/) (394)
typeMatch(propValue) ==
  LET starts == {i \in 1..(Len(propValue) - 2) :
                   /\ propValue[i] = "type" /\ propValue[i + 1] = ":"
                   /\ propValue[i + 2] \notin {",", "}"}}
  IN IF starts = {} THEN [ok |-> FALSE, text |-> ""]
     ELSE LET i == Min(starts)
              stop == Min({j \in (i + 2)..Len(propValue) : propValue[j] \in {",", "}"}})
          IN [ok |-> TRUE, text |-> JoinText(SubSeq(propValue, i + 2, stop - 1))]

\* propValue.match(/required\s*:\s*(true|false)/) (395)
requiredMatch(propValue) ==
  LET starts == {i \in 1..(Len(propValue) - 2) :
                   /\ propValue[i] = "required" /\ propValue[i + 1] = ":"
                   /\ propValue[i + 2] \in {"true", "false"}}
  IN IF starts = {} THEN [ok |-> FALSE, text |-> ""]
     ELSE [ok |-> TRUE, text |-> propValue[Min(starts) + 2]]

\* the default for a property whose type cannot be extracted (406-409)
defaultProp(propName) == [name |-> propName, type |-> "String", required |-> TRUE]

\* the entry for one match of propRegex (377-411)
parseProp(propName, propValue) ==
  IF jsonParses(propValue)
    THEN [name |-> propName,
          type |-> IF jsonGet(propValue, "type") \in {"undefined", "false", "null"}
                     THEN "String" ELSE jsonGet(propValue, "type"),
          required |-> jsonGet(propValue, "required") # "false"]
  ELSE IF typeMatch(propValue).ok
    THEN [name |-> propName,
          type |-> typeMatch(propValue).text,
          required |-> ~(requiredMatch(propValue).ok /\ requiredMatch(propValue).text = "false")]
  ELSE defaultProp(propName)

\* the start positions of the matches of /(\w+)\s*:\s*(\{[^{}]*\})/g (369)
propRegexMatches(content) ==
  {i \in 1..Len(content) :
     /\ IsWord(content[i]) /\ i + 2 <= Len(content)
     /\ content[i + 1] = ":" /\ BraceGroupAt(content, i + 2)}

RECURSIVE parsePropsLoop(_, _, _)
parsePropsLoop(content, k, props) ==
  IF k > Cardinality(propRegexMatches(content)) THEN props
  ELSE LET i == Nth(propRegexMatches(content), k)
           propValue == SubSeq(content, i + 2, NextBrace(content, i + 2))
       IN parsePropsLoop(content, k + 1, SetKey(props, parseProp(content[i], propValue)))

parsePropsFromTypeStr(content) == parsePropsLoop(content, 1, <<>>)

\* processTypeContent (216-246): ok is FALSE for the undefined return
processTypeContent(typeContent) ==
  IF ~isObjectType(typeContent) THEN [ok |-> FALSE, props |-> <<>>]
  ELSE [ok |-> TRUE, props |-> parsePropsFromTypeStr(extractObjectContent(typeContent))]

(***************************************************************************)
(* The value of a resolver call: a string, or undefined (u), with the      *)
(* number e of handleError calls it made; thrown marks an exception on its *)
(* way to the enclosing catch.                                             *)
(***************************************************************************)
Str(text) == [u |-> FALSE, s |-> text, e |-> 0, thrown |-> FALSE]

Undefined(errs) == [u |-> TRUE, s |-> <<>>, e |-> errs, thrown |-> FALSE]

Throw(errs) == [u |-> TRUE, s |-> <<>>, e |-> errs, thrown |-> TRUE]

AddErrors(r, n) == [r EXCEPT !.e = @ + n]

\* !value of a string | undefined
Falsy(r) == r.u \/ r.s = <<>>

DefaultDescriptor == <<"{", "type", ":", "Object", ",", "required", ":", "true", "}">>

ArrayDescriptor == <<"{", "type", ":", "Array", ",", "required", ":", "true", "}">>

\* /^[A-Z_]\w*$/i
IsReferenceName(text) == Len(text) = 1 /\ IsWord(text[1])

(***************************************************************************)
(* handleComplexType (254-355).  complexPart is the body of the loop over  *)
(* the parts; the accumulator holds mergedProps and hasObjectType.         *)
(***************************************************************************)
\* 309-312 (found = FALSE: hasObjectType only with a result) and 322-327
\* (found = TRUE: hasObjectType before the content is processed)
mergeContent(acc, content, found) ==
  [merged |-> IF content.ok THEN mergeProps(acc.merged, content.props) ELSE acc.merged,
   hasObjectType |-> acc.hasObjectType \/ found \/ content.ok]

\* 303-314 and 319-337: the part names a declared type
complexDeclared(ctx, acc, name, found) ==
  IF typeMapHas(ctx, name) /\ isObjectType(typeMapGet(ctx, name))
    THEN mergeContent(acc, processTypeContent(typeMapGet(ctx, name)), found)
    ELSE acc

\* 292-315: the part is a generic reference
complexGeneric(ctx, acc, genericMatch) ==
  IF genericMatch.base \in {"Array", "Set", "List"} THEN acc
  ELSE complexDeclared(ctx, acc, genericMatch.base, FALSE)

complexPart(ctx, acc, part) ==
  IF isObjectType(part)
    THEN [merged |-> mergeProps(acc.merged,
                                parseInlineProps(ctx.typeAliasMap, extractObjectContent(part))),
          hasObjectType |-> TRUE]
  ELSE IF GenericMatch(part, TRUE).ok
    THEN complexGeneric(ctx, acc, GenericMatch(part, TRUE))
  ELSE IF IsReferenceName(part) THEN complexDeclared(ctx, acc, part[1], TRUE)
  ELSE acc

RECURSIVE complexLoop(_, _, _)
complexLoop(ctx, acc, ps) ==
  IF ps = <<>> THEN acc
  ELSE complexLoop(ctx, complexPart(ctx, acc, Head(ps)), Tail(ps))

\* 342-354: the merged descriptor, or the throw that the catch turns into
\* one handleError call and an undefined return
complexResult(acc) ==
  IF acc.hasObjectType /\ Len(acc.merged) > 0
    THEN Str(stringifyProps(acc.merged))
    ELSE Undefined(1)

\* 262-339 on the result of parseComplexType
complexParsed(ctx, parsed, typeKind) ==
  IF \/ (typeKind = "union" /\ ~parsed.isUnion)
     \/ (typeKind = "intersection" /\ ~parsed.isIntersection)
     \/ Len(parsed.parts) = 0
    THEN Undefined(1)
    ELSE complexResult(complexLoop(ctx, [merged |-> <<>>, hasObjectType |-> FALSE],
                                   parsed.parts))

handleComplexType(ctx, typeText, typeKind) ==
  complexParsed(ctx, parseComplexType(typeText), typeKind)

handleUnionType(ctx, unionText) == handleComplexType(ctx, unionText, "union")

handleIntersectionType(ctx, intersectionText) ==
  handleComplexType(ctx, intersectionText, "intersection")

(***************************************************************************)
(* handleObjectIntersectionType (441-496).                                 *)
(***************************************************************************)
\* 462-472: a reference part whose declared text is an object type
objectIntersectionContent(merged, content) ==
  IF content.ok THEN mergeProps(merged, content.props) ELSE merged

objectIntersectionPart(ctx, merged, part) ==
  IF isObjectType(part) THEN merged
  ELSE IF /\ IsReferenceName(part) /\ typeMapHas(ctx, part[1])
          /\ isObjectType(typeMapGet(ctx, part[1]))
    THEN objectIntersectionContent(merged, processTypeContent(typeMapGet(ctx, part[1])))
  ELSE merged

RECURSIVE objectIntersectionLoop(_, _, _)
objectIntersectionLoop(ctx, merged, ps) ==
  IF ps = <<>> THEN merged
  ELSE objectIntersectionLoop(ctx, objectIntersectionPart(ctx, merged, Head(ps)), Tail(ps))

handleObjectIntersectionType(ctx, intersectionText, inlineProps) ==
  Str(stringifyProps(
        objectIntersectionLoop(ctx, inlineProps, parseComplexType(intersectionText).parts)))

(***************************************************************************)
(* processInnerGenericParams (638-691) and processNestedGeneric (701-760), *)
(* which call each other.                                                  *)
(***************************************************************************)
RECURSIVE processInnerGenericParams(_, _)
RECURSIVE processNestedGeneric(_, _)
RECURSIVE innerParams(_, _)

\* 648-662: the parameter is a simple reference
innerReference(ctx, param) ==
  IF typeMapHas(ctx, param[1])
    THEN Str(IF typeMapGet(ctx, param[1]) = <<>> THEN param ELSE typeMapGet(ctx, param[1]))
  ELSE IF param[1] \in ctx.typeAliasMap THEN Str(typeScriptToVueProp(param))
  ELSE Str(param)

\* the callback of params.map (646-690)
innerParam(ctx, param) ==
  IF Len(param) = 1 /\ IsUpperWord(param[1]) THEN innerReference(ctx, param)
  ELSE IF GenericMatch(param, FALSE).ok THEN processNestedGeneric(ctx, param)
  ELSE IF isObjectType(param)
    THEN Str(stringifyProps(parseInlineProps(ctx.typeAliasMap, extractObjectContent(param))))
  ELSE IF includes(param, "|") THEN handleUnionType(ctx, param)
  ELSE IF includes(param, "&") THEN handleIntersectionType(ctx, param)
  ELSE Str(param)

innerParams(ctx, params) ==
  IF params = <<>> THEN <<>>
  ELSE <<innerParam(ctx, Head(params))>> \o innerParams(ctx, Tail(params))

RECURSIVE SumErrors(_)
SumErrors(rs) == IF rs = <<>> THEN 0 ELSE Head(rs).e + SumErrors(Tail(rs))

\* processedParams.join(', ') (690)
joinProcessed(rs) ==
  AddErrors(Str(JoinComma([i \in 1..Len(rs) |-> rs[i].s])), SumErrors(rs))

processInnerGenericParams(ctx, paramText) ==
  joinProcessed(innerParams(ctx, splitTypeByOperator(paramText, ",")))

\* 728-752 once the inner parameters are processed
nestedWithInner(ctx, baseType, processedInner) ==
  IF toLowerCase(baseType) \in {"promise", "observable"}
    THEN IF Falsy(processedInner)
           THEN AddErrors(Str(DefaultDescriptor), processedInner.e)
           ELSE processedInner
    ELSE AddErrors(Str(IF isObjectType(typeMapGet(ctx, baseType))
                         THEN DefaultDescriptor ELSE typeMapGet(ctx, baseType)),
                   processedInner.e)

\* 704-756 on the match of /([A-Z][a-zA-Z0-9]*)<(.+)>/
nestedMatched(ctx, genericText, genericMatch) ==
  IF ~genericMatch.ok THEN Str(genericText)
  ELSE IF toLowerCase(genericMatch.base) \in {"array", "set", "collection"}
    THEN Str(ArrayDescriptor)
  ELSE IF toLowerCase(genericMatch.base) \in {"map", "record", "dictionary"}
    THEN Str(DefaultDescriptor)
  ELSE IF \/ toLowerCase(genericMatch.base) \in {"promise", "observable"}
          \/ typeMapHas(ctx, genericMatch.base)
    THEN nestedWithInner(ctx, genericMatch.base,
                         processInnerGenericParams(ctx, genericMatch.params))
  ELSE Str(DefaultDescriptor)

processNestedGeneric(ctx, genericText) ==
  nestedMatched(ctx, genericText, GenericMatch(genericText, FALSE))

(***************************************************************************)
(* processTypeParameters (501-628).  typeParametersBody is the body of the *)
(* try block, processTypeParameters adds the catch.                        *)
(***************************************************************************)
\* 540-600 on the two matches: the argument holds an inline object among
\* other text
inlineObjectMatched(ctx, params, typeWithGeneric, objMatch) ==
  IF /\ typeWithGeneric.ok /\ includes(typeWithGeneric.params, "{")
     /\ isObjectType(typeWithGeneric.params)
    THEN processNestedGeneric(ctx,
           <<typeWithGeneric.base, "<">>
           \o handleMultilineObject(ctx.typeAliasMap, typeWithGeneric.params)
           \o <<">">>)
  ELSE IF objMatch.ok /\ objMatch.content # <<>> /\ includes(params, "&")
    THEN handleObjectIntersectionType(ctx, params,
           parseInlineProps(ctx.typeAliasMap, objMatch.content))
  ELSE IF objMatch.ok /\ objMatch.content # <<>> /\ ~includes(params, "|")
    THEN Str(stringifyProps(parseInlineProps(ctx.typeAliasMap, objMatch.content)))
  ELSE IF includes(params, "&") THEN handleIntersectionType(ctx, params)
  ELSE IF includes(params, "|") THEN handleUnionType(ctx, params)
  ELSE Throw(0)

inlineObjectExpression(ctx, params) ==
  inlineObjectMatched(ctx, params, GenericMatch(params, FALSE), ObjMatch(params))

\* 526-531: `${typeName}<${processedInnerParams}>`
referenceWithParams(typeName, processedInnerParams) ==
  AddErrors(Str(<<typeName, "<">> \o processedInnerParams.s \o <<">">>),
            processedInnerParams.e)

\* 518-537: the argument is a type reference
typeReference(ctx, typeInfo) ==
  IF typeMapHas(ctx, typeInfo.name) THEN Str(typeMapGet(ctx, typeInfo.name))
  ELSE IF Len(typeInfo.typeParameters) = 0 THEN Throw(0)
  ELSE IF typeInfo.typeParameters[1].composition THEN Str(typeInfo.typeParameters[1].text)
  ELSE IF typeInfo.typeParameters[1].text # <<>>
    THEN referenceWithParams(typeInfo.name,
           processInnerGenericParams(ctx, typeInfo.typeParameters[1].text))
  ELSE Throw(0)

\* 515-621 on the result of analyzeTypeParameter
typeParametersAnalyzed(ctx, params, typeInfo) ==
  IF typeInfo.isReference THEN typeReference(ctx, typeInfo)
  ELSE IF typeInfo.name = "object" THEN Str(typeScriptToVueProp(params))
  ELSE IF includes(params, "{") /\ includes(params, "}")
    THEN IF isObjectType(params)
           THEN Str(handleMultilineObject(ctx.typeAliasMap, params))
           ELSE inlineObjectExpression(ctx, params)
  ELSE IF GenericMatch(params, FALSE).ok THEN processNestedGeneric(ctx, params)
  ELSE IF includes(params, "|") THEN handleUnionType(ctx, params)
  ELSE IF includes(params, "&") THEN handleIntersectionType(ctx, params)
  ELSE Throw(0)

typeParametersBody(ctx, typeText) ==
  IF ~(startsWith(typeText, "<") /\ endsWith(typeText, ">")) THEN Throw(0)
  ELSE typeParametersAnalyzed(ctx, Slice(typeText, 1, Len(typeText) - 1),
                              analyzeTypeParameter(Slice(typeText, 1, Len(typeText) - 1)))

\* 623-627: the catch reports the error and returns the default descriptor
typeParametersCaught(r) ==
  IF r.thrown THEN AddErrors(Str(DefaultDescriptor), r.e + 1) ELSE r

processTypeParameters(ctx, typeText) ==
  typeParametersCaught(typeParametersBody(ctx, typeText))

(***************************************************************************)
(* Specification SpecMerge: the parts of one union / intersection are      *)
(* merged one after the other into mergedProps, which starts empty         *)
(* (handleComplexType 267, 280, 311, 326; handleObjectIntersectionType     *)
(* 451, 470).                                                              *)
(***************************************************************************)
FieldNames == {"a", "b"}
TypeTags == {"String", "Number"}

Entry(n, t, r) == [name |-> n, type |-> t, required |-> r]

\* the descriptors of single parts: one field, or field a followed by b
PartSet ==
  {<<Entry(n, t, r)>> : n \in FieldNames, t \in TypeTags, r \in BOOLEAN}
  \cup {<<Entry("a", t, r), Entry("b", "Number", TRUE)>> : t \in TypeTags, r \in BOOLEAN}

RECURSIVE SeqsUpTo(_, _)
SeqsUpTo(S, n) ==
  IF n = 0 THEN {<<>>}
  ELSE LET shorter == SeqsUpTo(S, n - 1)
       IN shorter \cup {Append(s, x) : s \in shorter, x \in S}

\* the module state before the plugin is configured (error-handler.ts 23, 26)
NoLogCall == [fn |-> "none", details |-> FALSE, level |-> "none"]

InitLog ==
  /\ logLevel = "error"
  /\ errorCollector = <<>>
  /\ consoleOut = <<>>
  /\ logCall = NoLogCall

ResolverIdle ==
  /\ resolverFn = "none"
  /\ resolverArg = <<>>
  /\ resolverRet = Undefined(0)
  /\ resolverProps = <<>>

MergeIdle ==
  /\ parts = <<>>
  /\ partIdx = 0
  /\ mergedProps = <<>>

NoResult == [kind |-> "none", code |-> <<>>, props |-> <<>>]

\* no call of the transform hook yet
CallIdle ==
  /\ entry = "none"
  /\ unitCode = <<>>
  /\ contentStart = 0
  /\ coreCalls = 0
  /\ parseCalls = 0
  /\ resetCalls = 0
  /\ edits = <<>>
  /\ timerEvents = <<>>
  /\ result = NoResult

PipelineIdle ==
  /\ fileId = <<>>
  /\ fileCode = <<>>
  /\ CallIdle

InitMerge ==
  /\ parts \in (SeqsUpTo(PartSet, MaxParts) \ {<<>>})
  /\ partIdx = 0
  /\ mergedProps = <<>>
  /\ context = [typeMap |-> <<>>, typeAliasMap |-> {}]
  /\ InitLog
  /\ ResolverIdle
  /\ PipelineIdle

MergePart ==
  /\ partIdx < Len(parts)
  /\ mergedProps' = mergeProps(mergedProps, parts[partIdx + 1])
  /\ partIdx' = partIdx + 1
  /\ UNCHANGED <<parts, context, logVars, resolverVars, pipelineVars>>

NextMerge == MergePart

SpecMerge == InitMerge /\ [][NextMerge]_vars

\* indices of the merged parts that declare field k
Occurrences(k) == {i \in 1..partIdx : HasKey(parts[i], k)}

FirstOccurrence(k) == CHOOSE i \in Occurrences(k) : \A j \in Occurrences(k) : i <= j

\* C5: a merged field is required exactly when at least one of the parts
\* merged so far marks it required, whatever the order of the parts.
C5_RequiredIffAnyPart ==
  \A k \in FieldNames :
    HasKey(mergedProps, k) =>
      (GetKey(mergedProps, k).required
         <=> \E i \in Occurrences(k) : GetKey(parts[i], k).required)

\* witness of C5: two merged parts declare the same field, the first required
\* and the second not, and the merged field is required.
C5_Witness ==
  /\ partIdx = 2
  /\ HasKey(parts[1], "a") /\ GetKey(parts[1], "a").required
  /\ HasKey(parts[2], "a") /\ ~GetKey(parts[2], "a").required
  /\ GetKey(mergedProps, "a").required

\* C6 as stated: the merged field keeps the type tag of the first part in
\* which it occurs, whatever the required flags of the later parts.
C6_FirstTypeKept ==
  \A k \in FieldNames :
    HasKey(mergedProps, k) =>
      GetKey(mergedProps, k).type = GetKey(parts[FirstOccurrence(k)], k).type

\* the later parts that mark field k required
LaterRequired(k) ==
  {i \in Occurrences(k) : i > FirstOccurrence(k) /\ GetKey(parts[i], k).required}

\* C6 amended: the merged field has the type tag of the last later part that
\* marks it required; when no later part marks it required it keeps the type
\* tag of the first part in which it occurs.
C6_TypeOfLastRequired ==
  \A k \in FieldNames :
    HasKey(mergedProps, k) =>
      GetKey(mergedProps, k).type =
        IF LaterRequired(k) = {}
          THEN GetKey(parts[FirstOccurrence(k)], k).type
          ELSE GetKey(parts[CHOOSE i \in LaterRequired(k) :
                              \A j \in LaterRequired(k) : j <= i], k).type

\* witness of C6: a later part with another type tag marks the field required
\* and its type tag replaced the first-seen one.
C6_Witness ==
  /\ partIdx = 2
  /\ HasKey(parts[1], "a") /\ HasKey(parts[2], "a")
  /\ GetKey(parts[1], "a").type = "String"
  /\ GetKey(parts[2], "a").type = "Number" /\ GetKey(parts[2], "a").required
  /\ GetKey(mergedProps, "a").type = "Number"

(***************************************************************************)
(* handleError (error-handler.ts 54-77): at level none nothing is          *)
(* collected.  types are the error types of the calls, in order.           *)
(***************************************************************************)
collectErrors(level, collector, types) ==
  IF level = "none" THEN collector ELSE collector \o types

\* handleError (54-77) on the collector and the console
handleError(level, log, type, details) ==
  IF level = "none" THEN log
  ELSE [collector |-> Append(log.collector, type),
        console |-> log.console
                    \o (IF level \in {"error", "warn"} THEN <<<<"error", type>>>> ELSE <<>>)
                    \o (IF level = "error" /\ details
                          THEN <<<<"error", "Error details:">>>> ELSE <<>>)]

\* logWarning (84-95)
logWarning(level, console, details) ==
  IF level \in {"none", "error"} THEN console
  ELSE console \o <<<<"warn", "[WARNING]">>>>
               \o (IF details /\ level \in {"debug", "info"}
                     THEN <<<<"warn", "Details:">>>> ELSE <<>>)

\* logInfo (102-113)
logInfo(level, console, details) ==
  IF level # "info" /\ level # "debug" THEN console
  ELSE console \o <<<<"info", "[INFO]">>>>
               \o (IF details /\ level = "debug" THEN <<<<"info", "Details:">>>> ELSE <<>>)

\* logDebug (120-130)
logDebug(level, console, details) ==
  IF level # "debug" THEN console
  ELSE console \o <<<<"debug", "[DEBUG]">>>>
               \o (IF details THEN <<<<"debug", "Details:">>>> ELSE <<>>)

\* the console after the handleError calls of a resolver or transformer
\* call; each passes the caught exception as details
RECURSIVE consoleAfterErrors(_, _, _)
consoleAfterErrors(level, console, types) ==
  IF types = <<>> THEN console
  ELSE consoleAfterErrors(level,
         handleError(level, [collector |-> <<>>, console |-> console], Head(types), TRUE).console,
         Tail(types))

TypeParseErrors(n) == [i \in 1..n |-> "type-parse-error"]

(***************************************************************************)
(* The declarations of a module and the text the type catalog holds for    *)
(* each: interfaces A and B (B redeclares field a with another type),      *)
(* the alias N of a union, and the generic interface Box.                  *)
(***************************************************************************)
DeclNames == {"A", "B", "N", "Box"}

DeclText(name) ==
  CASE name = "A" -> stringifyProps(<<Entry("a", "String", FALSE)>>)
    [] name = "B" -> stringifyProps(<<Entry("a", "Number", TRUE), Entry("b", "Number", TRUE)>>)
    [] name = "N" -> <<"A", "|", "B">>
    [] name = "Box" -> stringifyProps(<<Entry("c", "Boolean", TRUE)>>)

\* the context after collectTypesFromAST saw the declarations in names
ContextOf(names) == [typeMap |-> [n \in names |-> DeclText(n)], typeAliasMap |-> {}]

(***************************************************************************)
(* Type arguments: single operands, and unions / intersections of up to    *)
(* MaxOperands operands.  A text that both starts and ends with a brace    *)
(* but is more than one object is left out: what handleMultilineObject     *)
(* makes of it is not fixed by the sources at hand.                        *)
(***************************************************************************)
ObjA == <<"{", "a", "?", ":", "string", "}">>
ObjB == <<"{", "b", ":", "number", "}">>
ObjC == <<"{", "c", ":", "boolean", "}">>

Operands ==
  {<<"A">>, <<"B">>, <<"N">>, <<"U">>, <<"string">>, ObjA, ObjB, ObjC,
   <<"Array", "<", "A", ">">>, <<"Box", "<", "A", ">">>}

RECURSIVE JoinWith(_, _)
JoinWith(texts, op) ==
  IF Len(texts) = 1 THEN texts[1]
  ELSE texts[1] \o <<op>> \o JoinWith(Tail(texts), op)

Compositions ==
  {JoinWith(ops, op) : ops \in {q \in SeqsUpTo(Operands, MaxOperands) : Len(q) >= 2},
                       op \in {"|", "&"}}

Wrappers == {"Promise", "Observable", "Array", "Set", "List", "Collection",
             "Map", "Record", "Dictionary", "Box", "U"}

\* x wrapped k times in the generic w
RECURSIVE Nested(_, _, _)
Nested(w, x, k) == IF k = 0 THEN x ELSE <<w, "<">> \o Nested(w, x, k - 1) \o <<">">>

DeepGenerics ==
  {Nested(w, x, k) : w \in {"Promise", "Box"}, x \in {<<"A">>, <<"string">>, ObjA},
                     k \in 2..MaxNesting}

GenericTexts ==
  {<<w, "<">> \o x \o <<">">> : w \in Wrappers,
                               x \in {<<"A">>, <<"U">>, <<"string">>, ObjA, ObjB,
                                      <<"Promise", "<", "A", ">">>, <<"A", "|", "B">>}}
  \cup DeepGenerics

TypeArguments ==
  {t \in Operands \cup Compositions \cup GenericTexts \cup {<<"{", "}">>} :
     isObjectType(t) => analyzeTypeParameter(t).name = "object"}

(***************************************************************************)
(* Serialized descriptors for parsePropsFromTypeStr: up to MaxFields       *)
(* properties with distinct names, each "name: value".                     *)
(***************************************************************************)
PropValues ==
  {<<"{", "type", ":", "String", ",", "required", ":", "true", "}">>,
   <<"{", "type", ":", "Number", ",", "required", ":", "false", "}">>,
   <<"{", "type", ":", "MyType", ",", "required", ":", "false", "}">>,
   <<"{", "type", ":", "Number", "}">>,
   <<"{", "required", ":", "false", "}">>,
   <<"{", "}">>,
   <<"{", "junk", "}">>,
   <<"{", "required", ":", "junk", "}">>,
   <<"junk">>}

PropDecls == {<<n, ":">> \o v : n \in {"a", "b", "c"}, v \in PropValues}

PropContents ==
  {JoinComma(ds) : ds \in {q \in SeqsUpTo(PropDecls, MaxFields) :
                             \A i, j \in 1..Len(q) : i # j => q[i][1] # q[j][1]}}

(***************************************************************************)
(* Specification SpecResolver: one call of an exported resolver function   *)
(* in the context of a module that declares A, B, N and Box.               *)
(***************************************************************************)
InitResolver ==
  /\ context = ContextOf(DeclNames)
  /\ logLevel \in {"error", "none"}
  /\ errorCollector = <<>>
  /\ consoleOut = <<>>
  /\ logCall = NoLogCall
  /\ ResolverIdle
  /\ MergeIdle
  /\ PipelineIdle

CallProcessTypeParameters ==
  /\ resolverFn = "none"
  /\ \E t \in TypeArguments :
       LET r == processTypeParameters(context, <<"<">> \o t \o <<">">>)
       IN /\ resolverFn' = "processTypeParameters"
          /\ resolverArg' = t
          /\ resolverRet' = r
          /\ errorCollector' = collectErrors(logLevel, errorCollector, TypeParseErrors(r.e))
          /\ consoleOut' = consoleAfterErrors(logLevel, consoleOut, TypeParseErrors(r.e))
  /\ UNCHANGED <<resolverProps, context, logLevel, logCall, mergeVars, pipelineVars>>

CallProcessNestedGeneric ==
  /\ resolverFn = "none"
  /\ \E t \in GenericTexts :
       LET r == processNestedGeneric(context, t)
       IN /\ resolverFn' = "processNestedGeneric"
          /\ resolverArg' = t
          /\ resolverRet' = r
          /\ errorCollector' = collectErrors(logLevel, errorCollector, TypeParseErrors(r.e))
          /\ consoleOut' = consoleAfterErrors(logLevel, consoleOut, TypeParseErrors(r.e))
  /\ UNCHANGED <<resolverProps, context, logLevel, logCall, mergeVars, pipelineVars>>

CallParsePropsFromTypeStr ==
  /\ resolverFn = "none"
  /\ \E c \in PropContents :
       /\ resolverFn' = "parsePropsFromTypeStr"
       /\ resolverArg' = c
       /\ resolverProps' = parsePropsFromTypeStr(c)
  /\ UNCHANGED <<resolverRet, context, logVars, mergeVars, pipelineVars>>

NextResolver ==
  \/ CallProcessTypeParameters
  \/ CallProcessNestedGeneric
  \/ CallParsePropsFromTypeStr

SpecResolver == InitResolver /\ [][NextResolver]_vars

(***************************************************************************)
(* Properties of one resolver call.                                        *)
(***************************************************************************)
\* the text of the call is a union or an intersection
IsComposition(text) == TopLevel(text, {"|", "&"}) # {}

\* an inline object, or a bare name the catalog holds an object type for
IsObjectPart(ctx, part) ==
  \/ isObjectType(part)
  \/ /\ IsReferenceName(part) /\ typeMapHas(ctx, part[1])
     /\ isObjectType(typeMapGet(ctx, part[1]))

\* the descriptor of an object part resolved on its own
ObjectPartProps(ctx, part) ==
  IF isObjectType(part)
    THEN parseInlineProps(ctx.typeAliasMap, extractObjectContent(part))
    ELSE processTypeContent(typeMapGet(ctx, part[1])).props

\* the parts of the argument of the call
ArgParts == parseComplexType(resolverArg).parts

\* the descriptor the call returned, read back from its text
ReturnedProps == processTypeContent(resolverRet.s).props

\* C7: resolving a union or intersection whose parts are all object parts
\* yields a descriptor whose field set is the union of the parts' field
\* sets, and a field of only one part keeps its own type and required flag.
C7_FieldSetIsUnion ==
  (/\ resolverFn = "processTypeParameters"
   /\ IsComposition(resolverArg)
   /\ \A i \in 1..Len(ArgParts) : IsObjectPart(context, ArgParts[i]))
  => /\ ~Falsy(resolverRet)
     /\ Keys(ReturnedProps)
          = UNION {Keys(ObjectPartProps(context, ArgParts[i])) : i \in 1..Len(ArgParts)}
     /\ \A i \in 1..Len(ArgParts) :
          \A k \in Keys(ObjectPartProps(context, ArgParts[i])) :
            (\A j \in 1..Len(ArgParts) :
               j # i => ~HasKey(ObjectPartProps(context, ArgParts[j]), k))
            => /\ HasKey(ReturnedProps, k)
               /\ GetKey(ReturnedProps, k) = GetKey(ObjectPartProps(context, ArgParts[i]), k)

\* a bare type name the catalog does not hold
IsUnresolvablePart(ctx, part) ==
  Len(part) = 1 /\ IsUpperWord(part[1]) /\ ~typeMapHas(ctx, part[1])

\* C8: when a part of a union or intersection cannot be resolved, the call
\* fails as a unit (undefined or the default descriptor); it never returns a
\* descriptor made of the other parts only.
C8_AllOrNothing ==
  (/\ resolverFn = "processTypeParameters"
   /\ IsComposition(resolverArg)
   /\ \E i \in 1..Len(ArgParts) : IsUnresolvablePart(context, ArgParts[i]))
  => (Falsy(resolverRet) \/ resolverRet.s = DefaultDescriptor)

\* the "name: value" fields of the text given to parsePropsFromTypeStr
DeclaredFields ==
  IF resolverArg = <<>> THEN <<>>
  ELSE SplitAt(resolverArg, TopLevel(resolverArg, {","}))

FieldValue(seg) == SubSeq(seg, 3, Len(seg))

\* the value is "{ type: T, required: true|false }"
WellFormedValue(v) ==
  /\ Len(v) = 9 /\ v[1] = "{" /\ v[2] = "type" /\ v[3] = ":" /\ v[5] = ","
  /\ v[6] = "required" /\ v[7] = ":" /\ v[8] \in {"true", "false"} /\ v[9] = "}"

\* the value names neither a type nor a required flag
UnparsableValue(v) ==
  ~includes(v, "type") /\ ~includes(v, "true") /\ ~includes(v, "false")

\* C9: every declared field is in the result; a well-formed field has its
\* declared type and required flag, and a field that cannot be parsed into a
\* {type, required} shape is there with required = true.
C9_MalformedFieldDefaulted ==
  resolverFn = "parsePropsFromTypeStr" =>
    \A i \in 1..Len(DeclaredFields) :
      /\ HasKey(resolverProps, DeclaredFields[i][1])
      /\ WellFormedValue(FieldValue(DeclaredFields[i])) =>
           GetKey(resolverProps, DeclaredFields[i][1])
             = Entry(DeclaredFields[i][1], FieldValue(DeclaredFields[i])[4],
                     FieldValue(DeclaredFields[i])[8] = "true")
      /\ UnparsableValue(FieldValue(DeclaredFields[i])) =>
           GetKey(resolverProps, DeclaredFields[i][1]).required

\* the argument is Promise<X> or Observable<X> with X an inline object
IsDeferredOfObject(text) ==
  /\ Len(text) >= 5 /\ text[1] \in {"Promise", "Observable"}
  /\ text[2] = "<" /\ text[Len(text)] = ">"
  /\ isObjectType(SubSeq(text, 3, Len(text) - 1))
  /\ analyzeTypeParameter(SubSeq(text, 3, Len(text) - 1)).name = "object"

\* C10: Promise<X> / Observable<X> with X an inline object resolves to the
\* text that resolving X directly gives, through processTypeParameters as
\* well as through processNestedGeneric.
C10_DeferredTransparent ==
  (/\ resolverFn \in {"processTypeParameters", "processNestedGeneric"}
   /\ IsDeferredOfObject(resolverArg))
  => /\ ~resolverRet.u
     /\ resolverRet.s
          = processTypeParameters(context, <<"<">> \o SubSeq(resolverArg, 3, Len(resolverArg) - 1)
                                           \o <<">">>).s

\* the container names the resolver special-cases anywhere: the names of
\* the switch of processNestedGeneric (715-722) and of the list that
\* handleComplexType skips (297)
ListContainers == {"Array", "Set", "List", "Collection"}

MapContainers == {"Map", "Record", "Dictionary"}

\* the text of the call is Name<...>
IsGenericOf(text, names) ==
  Len(text) >= 4 /\ text[1] \in names /\ text[2] = "<" /\ text[Len(text)] = ">"

\* C11: processNestedGeneric resolves a generic reference to a list / set /
\* collection container to the array descriptor and one to a map / record /
\* dictionary container to the object descriptor, for every container name
\* the resolver special-cases anywhere.
C11_ContainersOpaque ==
  resolverFn = "processNestedGeneric" =>
    /\ IsGenericOf(resolverArg, ListContainers) => resolverRet.s = ArrayDescriptor
    /\ IsGenericOf(resolverArg, MapContainers) => resolverRet.s = DefaultDescriptor

\* the maximum recursion depth the specification asks the resolver to
\* impose; the sources hold no such number
MaxRecursionDepth == 2

RECURSIVE nestedCallDepth(_, _)

\* the deepest call of processNestedGeneric that processInnerGenericParams
\* makes for one of its parameters (646-669), 0 when it makes none
innerCallDepth(ctx, params) ==
  Max({0} \cup {nestedCallDepth(ctx, params[i]) :
                  i \in {j \in 1..Len(params) :
                           /\ ~(Len(params[j]) = 1 /\ IsUpperWord(params[j][1]))
                           /\ GenericMatch(params[j], FALSE).ok}})

\* the number of nested calls of processNestedGeneric that are active at
\* the deepest point of the call on genericText (707-756)
nestedCallDepth(ctx, genericText) ==
  LET match == GenericMatch(genericText, FALSE)
  IN IF ~match.ok THEN 1
     ELSE IF toLowerCase(match.base) \in {"array", "set", "collection",
                                          "map", "record", "dictionary"} THEN 1
     ELSE IF \/ toLowerCase(match.base) \in {"promise", "observable"}
             \/ typeMapHas(ctx, match.base)
       THEN 1 + innerCallDepth(ctx, splitTypeByOperator(match.params, ","))
     ELSE 1

\* how deep the angle brackets of the text nest
GenericNesting(text) ==
  Max({0} \cup {Cardinality({j \in 1..i : text[j] = "<"})
                  - Cardinality({j \in 1..i : text[j] = ">"}) : i \in 1..Len(text)})

\* C16: the calls of processNestedGeneric never nest deeper than the
\* maximum recursion depth, and a type argument whose generics nest deeper
\* than the maximum resolves to the default descriptor.
C16_RecursionDepthBounded ==
  resolverFn = "processNestedGeneric" =>
    /\ nestedCallDepth(context, resolverArg) <= MaxRecursionDepth
    /\ GenericNesting(resolverArg) > MaxRecursionDepth
         => resolverRet.s = DefaultDescriptor

(***************************************************************************)
(* MagicString as transformCore and transformStyledComponents use it: the  *)
(* original text and the overwrite calls accepted so far.                  *)
(***************************************************************************)
MagicString(code) == [original |-> code, edits |-> <<>>, thrown |-> FALSE]

\* the position lies strictly inside a chunk that was already overwritten
splitsEdited(s, pos) ==
  \E k \in 1..Len(s.edits) : s.edits[k].start < pos /\ pos < s.edits[k].end

\* s.overwrite(start, end, content): throws when the end is out of bounds,
\* when the range is empty and when it splits an overwritten chunk
overwrite(s, start, end, content) ==
  IF end > Len(s.original) \/ start = end \/ splitsEdited(s, start) \/ splitsEdited(s, end)
    THEN [s EXCEPT !.thrown = TRUE]
    ELSE [s EXCEPT !.edits = Append(@, [start |-> start, end |-> end, content |-> content])]

splice(text, e) == SubSeq(text, 1, e.start) \o e.content \o SubSeq(text, e.end + 1, Len(text))

lastEdit(E) == CHOOSE e \in E : \A f \in E : f.start <= e.start

RECURSIVE spliceAll(_, _)
spliceAll(text, E) ==
  IF E = {} THEN text
  ELSE spliceAll(splice(text, lastEdit(E)), E \ {lastEdit(E)})

\* s.toString(): the original with every accepted overwrite applied
toString(s) == spliceAll(s.original, {s.edits[k] : k \in 1..Len(s.edits)})

(***************************************************************************)
(* parser.parse and the nodes the transformer looks at.  A declaration     *)
(*   const X = styled.tag<T>[css]      (type arguments on the tag)         *)
(*   const X = (styled.tag as T)[css]  (TSAsExpression as the tag)         *)
(* is a variable declaration whose initializer is a tagged template; the   *)
(* positions kept are the 0-based start / end offsets of the nodes.        *)
(***************************************************************************)
\* errorRecovery does not recover from every text
parses(code) == ~includes(code, "@@")

\* position of the ">" that closes the "<" at k, 0 when there is none
closeAngle(code, k) ==
  IF \E j \in (k + 1)..Len(code) :
       /\ code[j] = ">"
       /\ Cardinality({m \in k..j : code[m] = "<"}) = Cardinality({m \in k..j : code[m] = ">"})
    THEN Min({j \in (k + 1)..Len(code) :
                /\ code[j] = ">"
                /\ Cardinality({m \in k..j : code[m] = "<"})
                     = Cardinality({m \in k..j : code[m] = ">"})})
    ELSE 0

\* position of the first ")" after k, 0 when there is none
closeParen(code, k) ==
  IF \E j \in (k + 1)..Len(code) : code[j] = ")"
    THEN Min({j \in (k + 1)..Len(code) : code[j] = ")"})
    ELSE 0

\* "const X =" in front of position i
isDeclarator(code, i) ==
  i >= 4 /\ code[i - 3] = "const" /\ IsWord(code[i - 2]) /\ code[i - 1] = "="

\* styled.tag<T>[css] starts at i
GenericSiteAt(code, i) ==
  /\ isDeclarator(code, i) /\ i + 5 <= Len(code)
  /\ code[i] = "styled" /\ code[i + 1] = "." /\ IsWord(code[i + 2]) /\ code[i + 3] = "<"
  /\ closeAngle(code, i + 3) # 0 /\ closeAngle(code, i + 3) < Len(code)
  /\ code[closeAngle(code, i + 3) + 1] = "[css]"

\* (styled.tag as T)[css] with styled at i
AsSiteAt(code, i) ==
  /\ i >= 5 /\ code[i - 1] = "(" /\ isDeclarator(code, i - 1) /\ i + 5 <= Len(code)
  /\ code[i] = "styled" /\ code[i + 1] = "." /\ IsWord(code[i + 2]) /\ code[i + 3] = "as"
  /\ closeParen(code, i + 3) > i + 4 /\ closeParen(code, i + 3) < Len(code)
  /\ code[closeParen(code, i + 3) + 1] = "[css]"

\* the node offsets of the declaration with styled at i
siteAt(code, i) ==
  IF GenericSiteAt(code, i)
    THEN [kind |-> "generic", tagName |-> code[i + 2], start |-> i - 1,
          typeStart |-> i + 2, typeEnd |-> closeAngle(code, i + 3)]
    ELSE [kind |-> "as", tagName |-> code[i + 2], start |-> i - 1,
          typeStart |-> i + 3, typeEnd |-> closeParen(code, i + 3) - 1]

sitesAt(code, P) == [k \in 1..Cardinality(P) |-> siteAt(code, Nth(P, k))]

\* the declarations traverse visits, in document order
styledDeclarations(code) ==
  sitesAt(code, {i \in 1..Len(code) : GenericSiteAt(code, i) \/ AsSiteAt(code, i)})

\* interface Name { members } at i
InterfaceAt(code, i) ==
  /\ code[i] = "interface" /\ i + 3 <= Len(code)
  /\ IsUpperWord(code[i + 1]) /\ BraceGroupAt(code, i + 2)

declarationAt(code, i) ==
  [name |-> code[i + 1], body |-> SubSeq(code, i + 2, NextBrace(code, i + 2))]

declarationsAt(code, P) == [k \in 1..Cardinality(P) |-> declarationAt(code, Nth(P, k))]

typeDeclarations(code) ==
  declarationsAt(code, {i \in 1..Len(code) : InterfaceAt(code, i)})

\* the syntax tree, as far as the transformer reads it
parse(code) == [declarations |-> styledDeclarations(code), types |-> typeDeclarations(code)]

\* the text the catalog holds for name: that of its last declaration
lastDeclared(types, name) ==
  handleMultilineObject({}, types[Max({k \in 1..Len(types) : types[k].name = name})].body)

\* collectTypesFromAST on the context resetContext left empty
collectTypesFromAST(ast) ==
  IF Len(ast.types) = 0 THEN EmptyContext
  ELSE [typeMap |-> [n \in {ast.types[k].name : k \in 1..Len(ast.types)}
                       |-> lastDeclared(ast.types, n)],
        typeAliasMap |-> {}]

\* the fast-path test: styled.tag followed by the opening of a type argument
hasStyledComponents(code) ==
  \E i \in 1..(Len(code) - 3) :
    code[i] = "styled" /\ code[i + 1] = "." /\ IsWord(code[i + 2]) /\ code[i + 3] = "<"

(***************************************************************************)
(* transformStyledComponents (error-handler.ts 771-902).  The accumulator  *)
(* holds the MagicString, hasChanges, props and the number of handleError  *)
(* calls of the resolver; an exception of overwrite ends the traversal.    *)
(***************************************************************************)
\* `styled('${tagName}', ${params})`
styledCall(tagName, params) ==
  <<"styled", "(", "'" \o tagName \o "'", ",">> \o params \o <<")">>

\* mutant: the descriptor is put in front of props
afterOverwrite_unshift(acc, s, params) ==
  IF s.thrown THEN [acc EXCEPT !.s = s, !.errs = @ + params.e]
  ELSE [s |-> s, hasChanges |-> TRUE, props |-> <<params.s>> \o acc.props,
        errs |-> acc.errs + params.e]

\* 835-836 and 891-892, reached when overwrite returned
afterOverwrite(acc, s, params) ==
  IF s.thrown THEN [acc EXCEPT !.s = s, !.errs = @ + params.e]
  ELSE [s |-> s, hasChanges |-> TRUE, props |-> Append(acc.props, params.s),
        errs |-> acc.errs + params.e]

\* 821-836 and 878-892 on the resolved parameters
rewriteSite(offset, acc, site, params) ==
  IF Falsy(params) \/ site.start = 0 THEN [acc EXCEPT !.errs = @ + params.e]
  ELSE afterOverwrite(acc,
         overwrite(acc.s, offset + site.start, offset + site.typeEnd,
                   styledCall(site.tagName, params.s)),
         params)

\* 792-895 for one declaration
visitSite(ctx, code, offset, acc, site) ==
  IF site.typeStart = 0 \/ site.typeEnd = 0 THEN acc
  ELSE IF /\ site.kind = "generic"
          /\ ~(/\ startsWith(Slice(code, site.typeStart, site.typeEnd), "<")
               /\ endsWith(Slice(code, site.typeStart, site.typeEnd), ">"))
    THEN acc
  ELSE rewriteSite(offset, acc, site,
                   processTypeParameters(ctx, Slice(code, site.typeStart, site.typeEnd)))

RECURSIVE traverse(_, _, _, _, _)
traverse(ctx, code, offset, acc, sites) ==
  IF sites = <<>> \/ acc.s.thrown THEN acc
  ELSE traverse(ctx, code, offset, visitSite(ctx, code, offset, acc, Head(sites)), Tail(sites))

transformStyledComponents(ctx, ast, code, s, offset) ==
  traverse(ctx, code, offset,
           [s |-> s, hasChanges |-> FALSE, props |-> <<>>, errs |-> 0],
           ast.declarations)

(***************************************************************************)
(* transformCore (transform-core.ts 21-107).  The value of a call is the   *)
(* returned value (kind "null" or "result") or the exception (kind         *)
(* "thrown") together with what the call did to the module state.          *)
(***************************************************************************)
startTimer(label) == <<"start", label>>

endTimer(label) == <<"end", label>>

\* the timers of a call that got as far as the transform step (55-75)
stepTimers(timerLabel) ==
  <<startTimer(timerLabel),
    startTimer(timerLabel \o ":parse"), endTimer(timerLabel \o ":parse"),
    startTimer(timerLabel \o ":collectTypes"), endTimer(timerLabel \o ":collectTypes"),
    startTimer(timerLabel \o ":transform")>>

\* 39-45: the fast path
coreFastPath(code, timerLabel, offset, ctx) ==
  [kind |-> "null", code |-> <<>>, props |-> <<>>, context |-> ctx,
   coreCalls |-> 1, parseCalls |-> 0, resetCalls |-> 0, edits |-> <<>>,
   timers |-> <<startTimer(timerLabel), endTimer(timerLabel)>>,
   errors |-> <<>>, unitCode |-> code, contentStart |-> offset]

\* 57-65 and 102-106: parser.parse throws
coreParseFailed(code, timerLabel, offset) ==
  [kind |-> "thrown", code |-> <<>>, props |-> <<>>, context |-> EmptyContext,
   coreCalls |-> 1, parseCalls |-> 1, resetCalls |-> 1, edits |-> <<>>,
   timers |-> <<startTimer(timerLabel), startTimer(timerLabel \o ":parse"),
                endTimer(timerLabel)>>,
   errors |-> <<>>, unitCode |-> code, contentStart |-> offset]

\* 78-106 on the value of transformStyledComponents
coreTransformed(code, timerLabel, offset, ctx, done) ==
  [kind |-> IF done.s.thrown THEN "thrown" ELSE IF done.hasChanges THEN "result" ELSE "null",
   code |-> IF ~done.s.thrown /\ done.hasChanges THEN toString(done.s) ELSE <<>>,
   props |-> IF ~done.s.thrown /\ done.hasChanges THEN done.props ELSE <<>>,
   context |-> ctx,
   coreCalls |-> 1, parseCalls |-> 1, resetCalls |-> 1, edits |-> done.s.edits,
   timers |-> stepTimers(timerLabel)
              \o (IF done.s.thrown THEN <<>> ELSE <<endTimer(timerLabel \o ":transform")>>)
              \o <<endTimer(timerLabel)>>,
   errors |-> TypeParseErrors(done.errs), unitCode |-> code, contentStart |-> offset]

\* 69-77 on the context collectTypesFromAST filled
coreCollected(code, timerLabel, offset, ast, ctx) ==
  coreTransformed(code, timerLabel, offset, ctx,
                  transformStyledComponents(ctx, ast, code, MagicString(code), offset))

\* 48-106: past the fast path
coreSlowPath(code, timerLabel, offset) ==
  IF ~parses(code) THEN coreParseFailed(code, timerLabel, offset)
  ELSE coreCollected(code, timerLabel, offset, parse(code), collectTypesFromAST(parse(code)))

\* mutant: no fast path
transformCore_noFastPath(code, timerLabel, offset, ctx) ==
  coreSlowPath(code, timerLabel, offset)

transformCore(code, timerLabel, offset, ctx) ==
  IF ~hasStyledComponents(code) THEN coreFastPath(code, timerLabel, offset, ctx)
  ELSE coreSlowPath(code, timerLabel, offset)

\* ts-transformer.ts 11-18
transformStyledSyntax(code, ctx) == transformCore(code, "transformStyledSyntax", 0, ctx)

(***************************************************************************)
(* transformVueSFC (error-handler.ts 914-971).                             *)
(***************************************************************************)
\* String.prototype.indexOf
IndexOf(hay, needle) ==
  Min({k \in 0..(Len(hay) - Len(needle)) : SubSeq(hay, k + 1, k + Len(needle)) = needle})

\* the match of the script regular expression that starts at p: the content
\* runs up to the first closing tag
scriptMatchAt(code, p) ==
  [ok |-> TRUE, index |-> p - 1,
   whole |-> SubSeq(code, p, Min({q \in (p + 1)..Len(code) : code[q] = "</script>"})),
   content |-> SubSeq(code, p + 1, Min({q \in (p + 1)..Len(code) : code[q] = "</script>"}) - 1)]

\* the opening tags with lang=ts that a closing tag follows
scriptTags(code) ==
  {p \in 1..Len(code) :
     code[p] = "<script lang=ts>" /\ \E q \in (p + 1)..Len(code) : code[q] = "</script>"}

\* 927: the leftmost match
scriptMatch(code) ==
  IF scriptTags(code) = {} THEN [ok |-> FALSE, index |-> 0, whole |-> <<>>, content |-> <<>>]
  ELSE scriptMatchAt(code, Min(scriptTags(code)))

\* a return before transformCore is called (920-923, 930-933)
vueReturnNull(ctx, timers) ==
  [kind |-> "null", code |-> <<>>, props |-> <<>>, context |-> ctx,
   coreCalls |-> 0, parseCalls |-> 0, resetCalls |-> 0, edits |-> <<>>,
   timers |-> timers, errors |-> <<>>, unitCode |-> <<>>, contentStart |-> 0]

extractTimers ==
  <<startTimer("transformVueSFC"), startTimer("extractScript"), endTimer("extractScript")>>

\* 939-957 on the value of transformCore
vueCore(out) ==
  IF out.kind = "thrown"
    THEN [out EXCEPT !.kind = "null",
                     !.errors = @ \o <<"ast-transform-error">>,
                     !.timers = extractTimers \o @ \o <<endTimer("transformVueSFC")>>]
    ELSE [out EXCEPT !.timers = extractTimers \o @]

\* 930-957 on the match of the script regular expression
vueExtracted(m, ctx) ==
  IF ~m.ok \/ m.content = <<>>
    THEN vueReturnNull(ctx, extractTimers \o <<endTimer("transformVueSFC")>>)
    ELSE vueCore(transformCore(m.content, "transformVueSFC",
                               m.index + IndexOf(m.whole, m.content), ctx))

transformVueSFC(code, id, ctx) ==
  IF ~endsWith(id, ".vue")
    THEN vueReturnNull(ctx, <<startTimer("transformVueSFC"), endTimer("transformVueSFC")>>)
    ELSE vueExtracted(scriptMatch(code), ctx)

(***************************************************************************)
(* The files given to the transform hook: a script is up to MaxUnits       *)
(* statements, a Vue file holds the script in a script block.              *)
(***************************************************************************)
DeclA == <<"interface", "A", "{", "a", "?", ":", "string", "}">>

Filler == <<"const", "n", "=", "1">>

StyledOf(typeArg) ==
  <<"const", "X", "=", "styled", ".", "div", "<">> \o typeArg \o <<">", "[css]">>

StyledAs == <<"const", "Y", "=", "(", "styled", ".", "div", "as", "A", ")", "[css]">>

\* a tagged template that is not the initializer of a declaration
StyledExport == <<"export", "default", "styled", ".", "span", "<", "A", ">", "[css]">>

Units ==
  {DeclA, Filler, StyledAs, StyledExport, <<"@@">>,
   StyledOf(<<"A">>), StyledOf(<<"U">>), StyledOf(ObjB), StyledOf(<<"string", "|", "number">>)}

RECURSIVE Concat(_)
Concat(texts) == IF texts = <<>> THEN <<>> ELSE Head(texts) \o Concat(Tail(texts))

Scripts == {Concat(us) : us \in SeqsUpTo(Units, MaxUnits)}

VueFiles ==
  {prefix \o <<tag>> \o script \o <<"</script>">> :
     prefix \in {<<>>, <<"<template/>">>},
     tag \in {"<script lang=ts>", "<script>"},
     script \in Scripts}

Files ==
  ({<<"a", ".ts">>, <<"a", ".tsx">>, <<"a", ".js">>, <<"a", ".jsx">>, <<"a", ".css">>,
    <<"node_modules", "/", "a", ".ts">>} \X Scripts)
  \cup ({<<"a", ".vue">>} \X VueFiles)

(***************************************************************************)
(* Specification Spec: one call of the transform hook of the plugin        *)
(* (the plugin entry, transform) on a file, in the context the previous    *)
(* file left.                                                              *)
(***************************************************************************)
Init ==
  /\ \E f \in Files : fileId = f[1] /\ fileCode = f[2]
  /\ context \in {EmptyContext, ContextOf({"Box"})}
  /\ logLevel \in {"error", "none"}
  /\ errorCollector = <<>>
  /\ consoleOut = <<>>
  /\ logCall = NoLogCall
  /\ CallIdle
  /\ ResolverIdle
  /\ MergeIdle

\* the state after the transformer returned (or threw) out
Return(name, out) ==
  /\ entry' = name
  /\ unitCode' = out.unitCode
  /\ contentStart' = out.contentStart
  /\ coreCalls' = out.coreCalls
  /\ parseCalls' = out.parseCalls
  /\ resetCalls' = out.resetCalls
  /\ edits' = out.edits
  /\ timerEvents' = out.timers
  /\ result' = [kind |-> out.kind, code |-> out.code, props |-> out.props]
  /\ context' = out.context
  /\ errorCollector' = collectErrors(logLevel, errorCollector, out.errors)
  /\ consoleOut' = consoleAfterErrors(logLevel, consoleOut, out.errors)
  /\ UNCHANGED <<fileVars, logLevel, logCall, mergeVars, resolverVars>>

\* id.endsWith('.vue')
TransformVue ==
  /\ entry = "none"
  /\ endsWith(fileId, ".vue")
  /\ Return("transformVueSFC", transformVueSFC(fileCode, fileId, context))

\* id.endsWith('.ts') || id.endsWith('.tsx')
TransformTs ==
  /\ entry = "none"
  /\ ~endsWith(fileId, ".vue")
  /\ endsWith(fileId, ".ts") \/ endsWith(fileId, ".tsx")
  /\ Return("transformStyledSyntax", transformStyledSyntax(fileCode, context))

\* any other file: return null
TransformOther ==
  /\ entry = "none"
  /\ ~endsWith(fileId, ".vue") /\ ~endsWith(fileId, ".ts") /\ ~endsWith(fileId, ".tsx")
  /\ Return("transform", vueReturnNull(context, <<>>))

Next ==
  \/ TransformVue
  \/ TransformTs
  \/ TransformOther

Spec == Init /\ [][Next]_vars

(***************************************************************************)
(* Properties of one call of the transform hook.                           *)
(***************************************************************************)
\* C1: a call of transformCore on a text for which hasStyledComponents is
\* false returns null without calling the parser, without resetting the
\* type context and without an edit; the context and the caller's text are
\* what they were.
C1_FastPathFrame ==
  [][(entry = "none" /\ coreCalls' = 1 /\ ~hasStyledComponents(unitCode'))
       => /\ result'.kind = "null"
          /\ parseCalls' = 0
          /\ resetCalls' = 0
          /\ edits' = <<>>
          /\ context' = context
          /\ fileCode' = fileCode]_vars

\* witness of C1: transformStyledSyntax returned null for a script without
\* the pattern, and the catalog of the previous file is still there.
C1_Witness ==
  /\ entry = "transformStyledSyntax"
  /\ coreCalls = 1
  /\ unitCode # <<>> /\ ~hasStyledComponents(unitCode)
  /\ result.kind = "null"
  /\ parseCalls = 0
  /\ context = ContextOf({"Box"})

\* the declarations transformStyledComponents matched in the unit
Matches == styledDeclarations(unitCode)

\* the k-th matched span of the input of the call, replaced by the call of
\* styled with the k-th returned descriptor
ExpectedEdit(k) ==
  [start |-> contentStart + Matches[k].start,
   end |-> contentStart + Matches[k].typeEnd,
   content |-> styledCall(Matches[k].tagName, result.props[k])]

\* C2: the code of a returned result is the input text of the call with
\* every matched span replaced by styled('<tag>', <descriptor>) and nothing
\* else changed.
C2_CodeIsInputWithSpansReplaced ==
  result.kind = "result" =>
    /\ Len(result.props) = Len(Matches)
    /\ result.code = spliceAll(fileCode, {ExpectedEdit(k) : k \in 1..Len(Matches)})

\* C3: every match of a TypeScript file is rewritten, and a match whose
\* type argument does not resolve is rewritten with the default descriptor.
C3_EveryMatchRewritten ==
  (entry = "transformStyledSyntax" /\ parseCalls = 1 /\ result.kind # "thrown") =>
    \A k \in 1..Len(Matches) :
      \E e \in 1..Len(edits) :
        /\ edits[e].start = Matches[k].start
        /\ edits[e].end = Matches[k].typeEnd
        /\ edits[e].content[1] = "styled"

\* C4: in the result for a Vue file the text in front of the first matched
\* span is that of the file, and the replacement starts at the start of the
\* span in the script plus contentStart.
C4_EditAtDocumentOffset ==
  (entry = "transformVueSFC" /\ result.kind = "result" /\ contentStart > 0) =>
    /\ SubSeq(result.code, 1, contentStart + Matches[1].start)
         = SubSeq(fileCode, 1, contentStart + Matches[1].start)
    /\ SubSeq(result.code, contentStart + Matches[1].start + 1,
              contentStart + Matches[1].start + 3)
         = <<"styled", "(", "'" \o Matches[1].tagName \o "'">>

\* the transform hook called again, on the code of the returned result
SecondRun ==
  IF entry = "transformVueSFC" THEN transformVueSFC(result.code, fileId, context)
  ELSE transformStyledSyntax(result.code, context)

\* C12: the code of a returned result holds no declaration the transformer
\* matches, and the transform hook called on it returns null.
C12_Idempotent ==
  result.kind = "result" =>
    /\ styledDeclarations(result.code) = <<>>
    /\ SecondRun.kind = "null"

\* the descriptor text inside styled('tag', <descriptor>)
SplicedDescriptor(content) == SubSeq(content, 5, Len(content) - 1)

TimerCalls(kind, label) ==
  Cardinality({i \in 1..Len(timerEvents) : timerEvents[i] = <<kind, label>>})

StartedLabels == {timerEvents[i][2] : i \in {j \in 1..Len(timerEvents) : timerEvents[j][1] = "start"}}

\* every timer that was started has been ended as often as it was started
TimersBalanced ==
  \A label \in StartedLabels : TimerCalls("end", label) = TimerCalls("start", label)

\* C14: when the parser throws in transformCore, the exception reaches the
\* caller of transformStyledSyntax, and by then every timer transformCore
\* started (the overall one and that of the parse step) has been ended.
C14_FaultRethrownTimersClosed ==
  (entry = "transformStyledSyntax" /\ parseCalls = 1 /\ ~parses(unitCode))
  => /\ result.kind = "thrown"
     /\ TimersBalanced

\* C15: when the parser is called on a unit and cannot build a tree, the
\* transform hook throws; it does not return null, for the script of a Vue
\* file no more than for a TypeScript file.
C15_ParseFailurePropagates ==
  (entry \in {"transformStyledSyntax", "transformVueSFC"}
   /\ parseCalls = 1 /\ ~parses(unitCode))
  => result.kind = "thrown"

\* the default options the README documents: include and exclude
DefaultInclude == {".vue", ".tsx", ".jsx", ".ts", ".js"}

DefaultExclude == {"node_modules"}

\* the hook handed the file to a transformer
Dispatched == entry \in {"transformVueSFC", "transformStyledSyntax"}

\* C17: with the default options the transform hook hands every file whose
\* id ends with an included extension to a transformer, unless the path
\* holds an excluded name, and a file under node_modules is not processed.
C17_DefaultIncludeExclude ==
  entry # "none" =>
    /\ (\E x \in DefaultExclude : includes(fileId, x)) => ~Dispatched
    /\ (/\ \E e \in DefaultInclude : endsWith(fileId, e)
        /\ \A x \in DefaultExclude : ~includes(fileId, x)) => Dispatched

\* the matches whose type argument resolves to a descriptor: those for which
\* transformStyledComponents calls overwrite (821, 878)
Rewritable ==
  {k \in 1..Len(Matches) :
     ~Falsy(processTypeParameters(context,
                                  Slice(unitCode, Matches[k].typeStart, Matches[k].typeEnd)))}

\* the span of the overwrite for the k-th match (830-832, 886-888)
IssuedSpan(k) ==
  [start |-> contentStart + Matches[k].start, end |-> contentStart + Matches[k].typeEnd]

\* C18: every span handed to overwrite lies inside the text the MagicString
\* was built from, whatever the offset, and the spans of the overwrites of
\* one call do not overlap.
C18_EditSpansInsideBuffer ==
  (parseCalls = 1 /\ parses(unitCode)) =>
    /\ \A k \in Rewritable :
         /\ 0 <= IssuedSpan(k).start
         /\ IssuedSpan(k).start < IssuedSpan(k).end
         /\ IssuedSpan(k).end <= Len(unitCode)
    /\ \A i, j \in 1..Len(edits) :
         i # j => (edits[i].end <= edits[j].start \/ edits[j].end <= edits[i].start)

\* C19: when transformVueSFC has returned, every timer label has been ended
\* as often as it was started, whichever way the function returned.
C19_VueTimersBalanced ==
  entry = "transformVueSFC" =>
    \A label \in StartedLabels : TimerCalls("end", label) = TimerCalls("start", label)

(***************************************************************************)
(* Specification SpecLog: calls of setLogLevel and of the log functions    *)
(* of error-handler.ts, from the state the module is loaded in.            *)
(***************************************************************************)
LogLevels == {"none", "error", "warn", "info", "debug"}

ErrorTypes == {"type-parse-error", "ast-transform-error"}

InitLogging ==
  /\ InitLog
  /\ context = EmptyContext
  /\ ResolverIdle
  /\ MergeIdle
  /\ PipelineIdle

\* room for the lines of one more call
LogRoom == Len(consoleOut) < MaxLogLines /\ Len(errorCollector) < MaxLogLines

SetLogLevel ==
  /\ \E level \in LogLevels : logLevel' = level
  /\ UNCHANGED <<errorCollector, consoleOut, logCall, mergeVars, context, resolverVars,
                 pipelineVars>>

CallHandleError ==
  /\ LogRoom
  /\ \E type \in ErrorTypes, details \in BOOLEAN :
       /\ errorCollector'
            = handleError(logLevel, [collector |-> errorCollector, console |-> consoleOut],
                          type, details).collector
       /\ consoleOut'
            = handleError(logLevel, [collector |-> errorCollector, console |-> consoleOut],
                          type, details).console
       /\ logCall' = [fn |-> "handleError", details |-> details, level |-> logLevel]
  /\ UNCHANGED <<logLevel, mergeVars, context, resolverVars, pipelineVars>>

CallLogWarning ==
  /\ LogRoom
  /\ \E details \in BOOLEAN :
       /\ consoleOut' = logWarning(logLevel, consoleOut, details)
       /\ logCall' = [fn |-> "logWarning", details |-> details, level |-> logLevel]
  /\ UNCHANGED <<logLevel, errorCollector, mergeVars, context, resolverVars, pipelineVars>>

CallLogInfo ==
  /\ LogRoom
  /\ \E details \in BOOLEAN :
       /\ consoleOut' = logInfo(logLevel, consoleOut, details)
       /\ logCall' = [fn |-> "logInfo", details |-> details, level |-> logLevel]
  /\ UNCHANGED <<logLevel, errorCollector, mergeVars, context, resolverVars, pipelineVars>>

CallLogDebug ==
  /\ LogRoom
  /\ \E details \in BOOLEAN :
       /\ consoleOut' = logDebug(logLevel, consoleOut, details)
       /\ logCall' = [fn |-> "logDebug", details |-> details, level |-> logLevel]
  /\ UNCHANGED <<logLevel, errorCollector, mergeVars, context, resolverVars, pipelineVars>>

NextLog ==
  \/ SetLogLevel
  \/ CallHandleError
  \/ CallLogWarning
  \/ CallLogInfo
  \/ CallLogDebug

SpecLog == InitLogging /\ [][NextLog]_vars

\* the order none < error < warn < info < debug
Verbosity(level) ==
  CASE level = "none" -> 0
    [] level = "error" -> 1
    [] level = "warn" -> 2
    [] level = "info" -> 3
    [] level = "debug" -> 4

\* what a call of the log function writes to an empty console at a level
LogOutput(fn, level, details) ==
  CASE fn = "handleError"
         -> handleError(level, [collector |-> <<>>, console |-> <<>>],
                        "type-parse-error", details).console
    [] fn = "logWarning" -> logWarning(level, <<>>, details)
    [] fn = "logInfo" -> logInfo(level, <<>>, details)
    [] fn = "logDebug" -> logDebug(level, <<>>, details)

\* C20: a call of a log function that wrote to the console at the level it
\* was made at writes to the console at every more verbose level too; and
\* handleError at level none leaves the console and the collector alone.
C20_LogMonotone ==
  logCall.fn # "none" =>
    /\ LogOutput(logCall.fn, logCall.level, logCall.details) # <<>>
         => \A level \in LogLevels :
              Verbosity(level) > Verbosity(logCall.level)
                => LogOutput(logCall.fn, level, logCall.details) # <<>>
    /\ \A type \in ErrorTypes :
         handleError("none", [collector |-> errorCollector, console |-> consoleOut],
                     type, logCall.details)
           = [collector |-> errorCollector, console |-> consoleOut]

====
